---- MODULE Spec2Model ----
(***************************************************************************)
(* Lifecycle of server.Server (server.go): New builds an http.Server bound *)
(* to 0.0.0.0:PORT, ListenAndServe(ctx) starts the serve loop in a         *)
(* goroutine and selects between ctx.Done() and the goroutine's result,    *)
(* shutdown() drains under a fresh 10 s deadline.                          *)
(*                                                                         *)
(* A run is one call of Server.ListenAndServe.  Server is a value holding   *)
(* a *http.Server, so every run made through one Server shares the same    *)
(* http.Server: its shutdown flag, its tracked listeners, its connections. *)
(* The net/http calls made at server.go:43 and server.go:62 are modelled   *)
(* by what the standard library does there: ListenAndServe checks the      *)
(* shutdown flag, binds, registers the listener and accepts until an error;*)
(* Shutdown sets the flag, closes the registered listeners, waits for      *)
(* their serve loops to unregister, then polls the connections until all   *)
(* are idle or its context is done.                                        *)
(***************************************************************************)
EXTENDS Integers, Sequences, FiniteSets, TLC

\* Bounds of the model.
NumRuns == 2        \* calls of ListenAndServe made through one Server
MaxConns == 2       \* connections in flight at the same time

\* An errC made without a buffer.
ChanUnbuffered == Len(<<>>)

\* Program constants.
ChanCap == 1        \* make(chan error, 1)
TimeoutSeconds == 5

Runs == 1..NumRuns

\* Error values.  Nil is the nil error.
Nil == "nil"
ErrServerClosed == "http: Server closed"
ErrAddrInUse == "bind: address already in use"
ErrAccept == "accept: fatal listener error"
DeadlineExceeded == "context deadline exceeded"
Faults == {ErrAddrInUse, ErrAccept}
NoErr == "none"     \* no value yet

Ports == {"0", "8080"}

VARIABLES
    port,       \* the port given to New
    addr,       \* s.s.Addr
    timeouts,   \* s.s.ReadTimeout, WriteTimeout, IdleTimeout (seconds)
    callers,    \* the runs the callers of this Server may make
    overlap,    \* the callers may start a run while another is in progress
    pc,         \* position of each run in ListenAndServe / shutdown
    sel,        \* the select case the run took: "none", "ctx", "errC"
    recv,       \* the value received from errC
    result,     \* the error the run returned
    ctxDone,    \* ctx.Done() of the run's context is closed
    errC,       \* the run's buffered channel
    gpc,        \* position of the run's goroutine in s.s.ListenAndServe
    gerr,       \* what s.s.ListenAndServe returned to the goroutine
    expired,    \* the shutdown context's deadline has passed
    inShutdown, \* http.Server: Shutdown has been called
    lnOpen,     \* runs whose listener is bound and open
    tracked,    \* runs whose listener is registered with the http.Server
    conns,      \* connections with a request in flight
    first,      \* which of the run's two terminal sources occurred first
    expConns,   \* were requests in flight when the run's deadline expired
    retConns,   \* were requests in flight when the run returned
    drainLoad,  \* were requests in flight when the run began its Shutdown
    sent,       \* sends completed on the run's errC
    rcvd,       \* receives completed on the run's errC
    lateSend    \* the send on errC completed after the run had returned

vars == <<port, addr, timeouts, callers, overlap, pc, sel, recv, result, ctxDone, errC,
          gpc, gerr, expired, inShutdown, lnOpen, tracked, conns, first,
          expConns, retConns, drainLoad, sent, rcvd, lateSend>>

cfgVars == <<port, addr, timeouts, callers, overlap>>
srvVars == <<inShutdown, lnOpen, tracked, conns>>
obsVars == <<drainLoad, sent, rcvd, lateSend>>

\* net.JoinHostPort(host, port) for a host without ':' or '%'.
JoinHostPort(host, p) == host \o ":" \o p

\* New binding the loopback interface instead of every interface.
NewLoopback(p) ==
    [Addr |-> JoinHostPort("127.0.0.1", p),
     ReadTimeout |-> TimeoutSeconds,
     WriteTimeout |-> TimeoutSeconds,
     IdleTimeout |-> TimeoutSeconds]

\* server.go:20-30
New(p) ==
    [Addr |-> JoinHostPort("0.0.0.0", p),
     ReadTimeout |-> TimeoutSeconds,
     WriteTimeout |-> TimeoutSeconds,
     IdleTimeout |-> TimeoutSeconds]

\* server.go:33-35
Addr == addr

InitRun ==
    /\ pc = [r \in Runs |-> "idle"]
    /\ sel = [r \in Runs |-> "none"]
    /\ recv = [r \in Runs |-> NoErr]
    /\ result = [r \in Runs |-> NoErr]
    /\ ctxDone = [r \in Runs |-> FALSE]
    /\ errC = [r \in Runs |-> <<>>]
    /\ gpc = [r \in Runs |-> "none"]
    /\ gerr = [r \in Runs |-> NoErr]
    /\ expired = [r \in Runs |-> FALSE]
    /\ first = [r \in Runs |-> "none"]
    /\ expConns = [r \in Runs |-> "unset"]
    /\ retConns = [r \in Runs |-> "unset"]
    /\ drainLoad = [r \in Runs |-> "unset"]
    /\ sent = [r \in Runs |-> 0]
    /\ rcvd = [r \in Runs |-> 0]
    /\ lateSend = [r \in Runs |-> FALSE]

InitServer ==
    /\ port \in Ports
    /\ addr = New(port).Addr
    /\ timeouts = <<New(port).ReadTimeout, New(port).WriteTimeout, New(port).IdleTimeout>>
    /\ inShutdown = FALSE
    /\ lnOpen = {}
    /\ tracked = {}
    /\ conns = 0

\* One Server, run once.
Init == InitServer /\ InitRun /\ callers = {1} /\ overlap = FALSE

\* One Server run again after a run has returned: the copies of a Server
\* value share its *http.Server (server.go:14-16).
InitReuse == InitServer /\ InitRun /\ callers = Runs /\ overlap = FALSE

\* One Server run by several callers at once.
InitShared == InitServer /\ InitRun /\ callers = Runs /\ overlap = TRUE

\* The run's outcome, read off the error ListenAndServe returned.
Outcome(r) ==
    IF result[r] = NoErr THEN "none"
    ELSE IF result[r] = Nil THEN "CleanExit"
    ELSE IF result[r] = DeadlineExceeded THEN "ShutdownTimeout"
    ELSE "AbnormalExit"

Cause(r) == IF Outcome(r) = "AbnormalExit" THEN result[r] ELSE Nil

Draining(r) == pc[r] \in {"shutdown", "lgwait", "poll", "sleep", "timedout"}
\* Running: ListenAndServe is at its select, or has taken the errC case and
\* not returned yet.
Running(r) == pc[r] \in {"select", "blocked", "gotErr"}
Terminated(r) == pc[r] = "done"

\* The state of the run's lifecycle.
Phase(r) ==
    IF pc[r] = "idle" THEN "Idle"
    ELSE IF Running(r) THEN "Running"
    ELSE IF Draining(r) THEN "Draining"
    ELSE "Terminated"

\* Whether n connections are a server at rest or one with work in flight.
Load(n) == IF n = 0 THEN "idle" ELSE "busy"

\* Return as a select written in a loop without its return would do it: the
\* error is handed out and the run selects again.
ReturnAndLoop(r, err) ==
    /\ pc' = [pc EXCEPT ![r] = "select"]
    /\ result' = [result EXCEPT ![r] = err]
    /\ retConns' = [retConns EXCEPT ![r] = Load(conns)]

\* The run returns err: the caller has its outcome.
Return(r, err) ==
    /\ pc' = [pc EXCEPT ![r] = "done"]
    /\ result' = [result EXCEPT ![r] = err]
    /\ retConns' = [retConns EXCEPT ![r] = Load(conns)]

\* server.go:42-43: make the channel, start the goroutine.
Call(r) ==
    /\ r \in callers
    /\ pc[r] = "idle"
    /\ overlap \/ \A q \in Runs \ {r} : pc[q] \in {"idle", "done"}
    /\ pc' = [pc EXCEPT ![r] = "select"]
    /\ errC' = [errC EXCEPT ![r] = <<>>]
    /\ gpc' = [gpc EXCEPT ![r] = "check"]
    /\ UNCHANGED <<cfgVars, obsVars, srvVars, sel, recv, result, ctxDone, gerr, expired,
                   first, expConns, retConns>>

\* The caller's context is cancelled (or its deadline fires).  A run blocked
\* in the select is woken with the ctx.Done() case.  A run that has returned
\* holds no reference to its context any more.
Cancel(r) ==
    /\ r \in callers
    /\ pc[r] # "done"
    /\ ~ctxDone[r]
    /\ ctxDone' = [ctxDone EXCEPT ![r] = TRUE]
    /\ first' = [first EXCEPT ![r] = IF @ = "none" THEN "cancel" ELSE @]
    /\ IF pc[r] = "blocked"
         THEN /\ pc' = [pc EXCEPT ![r] = "shutdown"]
              /\ sel' = [sel EXCEPT ![r] = "ctx"]
         ELSE UNCHANGED <<pc, sel>>
    /\ UNCHANGED <<cfgVars, obsVars, srvVars, recv, result, errC, gpc, gerr, expired,
                   expConns, retConns>>

\* Select reading the value of errC without taking it out of the channel.
SelectPeek(r) ==
    /\ pc[r] = "select"
    /\ \/ /\ ctxDone[r]
          /\ pc' = [pc EXCEPT ![r] = "shutdown"]
          /\ sel' = [sel EXCEPT ![r] = "ctx"]
          /\ UNCHANGED <<recv, errC, rcvd>>
       \/ /\ Len(errC[r]) > 0
          /\ pc' = [pc EXCEPT ![r] = "gotErr"]
          /\ sel' = [sel EXCEPT ![r] = "errC"]
          /\ recv' = [recv EXCEPT ![r] = Head(errC[r])]
          /\ rcvd' = [rcvd EXCEPT ![r] = @ + 1]
          /\ UNCHANGED errC
       \/ /\ ~ctxDone[r]
          /\ Len(errC[r]) = 0
          /\ pc' = [pc EXCEPT ![r] = "blocked"]
          /\ UNCHANGED <<sel, recv, errC, rcvd>>
    /\ UNCHANGED <<cfgVars, drainLoad, sent, lateSend, srvVars, result, ctxDone, gpc, gerr,
                   expired, first, expConns, retConns>>

\* Select with a default case: a run that finds neither case ready returns
\* nil instead of blocking.
SelectDefault(r) ==
    /\ pc[r] = "select"
    /\ \/ /\ ctxDone[r]
          /\ pc' = [pc EXCEPT ![r] = "shutdown"]
          /\ sel' = [sel EXCEPT ![r] = "ctx"]
          /\ UNCHANGED <<recv, errC, rcvd, result, retConns>>
       \/ /\ Len(errC[r]) > 0
          /\ pc' = [pc EXCEPT ![r] = "gotErr"]
          /\ sel' = [sel EXCEPT ![r] = "errC"]
          /\ recv' = [recv EXCEPT ![r] = Head(errC[r])]
          /\ errC' = [errC EXCEPT ![r] = Tail(@)]
          /\ rcvd' = [rcvd EXCEPT ![r] = @ + 1]
          /\ UNCHANGED <<result, retConns>>
       \/ /\ ~ctxDone[r]
          /\ Len(errC[r]) = 0
          /\ Return(r, Nil)
          /\ UNCHANGED <<sel, recv, errC, rcvd>>
    /\ UNCHANGED <<cfgVars, drainLoad, sent, lateSend, srvVars, ctxDone, gpc, gerr,
                   expired, first, expConns>>

\* server.go:45-48: the select is evaluated. With both cases ready Go takes
\* either; with none ready the run blocks.
Select(r) ==
    /\ pc[r] = "select"
    /\ \/ /\ ctxDone[r]
          /\ pc' = [pc EXCEPT ![r] = "shutdown"]
          /\ sel' = [sel EXCEPT ![r] = "ctx"]
          /\ UNCHANGED <<recv, errC, rcvd>>
       \/ /\ Len(errC[r]) > 0
          /\ pc' = [pc EXCEPT ![r] = "gotErr"]
          /\ sel' = [sel EXCEPT ![r] = "errC"]
          /\ recv' = [recv EXCEPT ![r] = Head(errC[r])]
          /\ errC' = [errC EXCEPT ![r] = Tail(@)]
          /\ rcvd' = [rcvd EXCEPT ![r] = @ + 1]
       \/ /\ ~ctxDone[r]
          /\ Len(errC[r]) = 0
          /\ pc' = [pc EXCEPT ![r] = "blocked"]
          /\ UNCHANGED <<sel, recv, errC, rcvd>>
    /\ UNCHANGED <<cfgVars, drainLoad, sent, lateSend, srvVars, result, ctxDone, gpc, gerr,
                   expired, first, expConns, retConns>>

\* RecvResult dropping every error the goroutine reports.
RecvResultSwallow(err) == Nil

\* RecvResult without the comparison against http.ErrServerClosed.
RecvResultRaw(err) == err

\* RecvReturn of a ListenAndServe that shuts the server down whenever the
\* serve loop has ended, instead of returning.
RecvReturnDrain(r) ==
    /\ pc[r] = "gotErr"
    /\ pc' = [pc EXCEPT ![r] = "shutdown"]
    /\ UNCHANGED <<cfgVars, obsVars, srvVars, sel, recv, result, ctxDone, errC, gpc, gerr,
                   expired, first, expConns, retConns>>

\* server.go:49-52
RecvResult(err) == IF err # ErrServerClosed THEN err ELSE Nil

RecvReturn(r) ==
    /\ pc[r] = "gotErr"
    /\ Return(r, RecvResult(recv[r]))
    /\ UNCHANGED <<cfgVars, obsVars, srvVars, sel, recv, ctxDone, errC, gpc, gerr,
                   expired, first, expConns>>

\* ShutdownBegin bounding the drain by the caller's context, which is
\* already done, instead of a fresh deadline.
ShutdownBeginCallerCtx(r) ==
    /\ pc[r] = "shutdown"
    /\ pc' = [pc EXCEPT ![r] = "lgwait"]
    /\ expired' = [expired EXCEPT ![r] = ctxDone[r]]
    /\ drainLoad' = [drainLoad EXCEPT ![r] = Load(conns)]
    /\ inShutdown' = TRUE
    /\ lnOpen' = lnOpen \ tracked
    /\ UNCHANGED <<cfgVars, sent, rcvd, lateSend, tracked, conns, sel, recv, result, ctxDone, errC,
                   gpc, gerr, first, expConns, retConns>>

\* server.go:60-62: the fresh deadline is set, then http.Server.Shutdown sets
\* the shutdown flag and closes every registered listener.
ShutdownBegin(r) ==
    /\ pc[r] = "shutdown"
    /\ pc' = [pc EXCEPT ![r] = "lgwait"]
    /\ expired' = [expired EXCEPT ![r] = FALSE]
    /\ drainLoad' = [drainLoad EXCEPT ![r] = Load(conns)]
    /\ inShutdown' = TRUE
    /\ lnOpen' = lnOpen \ tracked
    /\ UNCHANGED <<cfgVars, sent, rcvd, lateSend, tracked, conns, sel, recv, result, ctxDone, errC,
                   gpc, gerr, first, expConns, retConns>>

\* http.Server.Shutdown waits for the registered serve loops to unregister.
ListenersDone(r) ==
    /\ pc[r] = "lgwait"
    /\ tracked = {}
    /\ pc' = [pc EXCEPT ![r] = "poll"]
    /\ UNCHANGED <<cfgVars, obsVars, srvVars, sel, recv, result, ctxDone, errC, gpc,
                   gerr, expired, first, expConns, retConns>>

\* PollResult of a loop that never looks at its context.
PollResultNoDeadline(n, exp) == IF n = 0 THEN Nil ELSE NoErr

\* PollResult of a loop that gives up at the first busy connection.
PollResultImpatient(n, exp) == IF n = 0 THEN Nil ELSE DeadlineExceeded

\* What a poll of http.Server.Shutdown's loop decides: nil when every
\* connection is idle, else the context's error when it is done, else wait.
PollResult(n, exp) ==
    IF n = 0 THEN Nil
    ELSE IF exp THEN DeadlineExceeded
    ELSE NoErr

\* server.go:62: one turn of Shutdown's loop.
Poll(r) ==
    /\ pc[r] = "poll"
    /\ IF PollResult(conns, expired[r]) # NoErr
         THEN Return(r, PollResult(conns, expired[r]))
         ELSE /\ pc' = [pc EXCEPT ![r] = "sleep"]
              /\ UNCHANGED <<result, retConns>>
    /\ UNCHANGED <<cfgVars, obsVars, srvVars, sel, recv, ctxDone, errC, gpc, gerr,
                   expired, first, expConns>>

\* The poll timer fires: Shutdown looks at the connections again.
Tick(r) ==
    /\ pc[r] = "sleep"
    /\ pc' = [pc EXCEPT ![r] = "poll"]
    /\ UNCHANGED <<cfgVars, obsVars, srvVars, sel, recv, result, ctxDone, errC, gpc,
                   gerr, expired, first, expConns, retConns>>

\* server.go:60: the 10 s deadline passes while shutdown() is running. A
\* Shutdown blocked between two polls is woken with the context's case.
Expire(r) ==
    /\ pc[r] \in {"lgwait", "poll", "sleep"}
    /\ ~expired[r]
    /\ expired' = [expired EXCEPT ![r] = TRUE]
    /\ expConns' = [expConns EXCEPT ![r] = Load(conns)]
    /\ pc' = [pc EXCEPT ![r] = IF @ = "sleep" THEN "timedout" ELSE @]
    /\ UNCHANGED <<cfgVars, obsVars, srvVars, sel, recv, result, ctxDone, errC, gpc,
                   gerr, first, retConns>>

\* server.go:62: Shutdown returns ctx.Err().
TimeoutReturn(r) ==
    /\ pc[r] = "timedout"
    /\ Return(r, DeadlineExceeded)
    /\ UNCHANGED <<cfgVars, obsVars, srvVars, sel, recv, ctxDone, errC, gpc, gerr,
                   expired, first, expConns>>

\* s.s.ListenAndServe() returns err to the goroutine.
GReturn(r, err) ==
    /\ gpc' = [gpc EXCEPT ![r] = "ret"]
    /\ gerr' = [gerr EXCEPT ![r] = err]
    /\ first' = [first EXCEPT ![r] = IF @ = "none" THEN "serve" ELSE @]

\* server.go:43: http.Server.ListenAndServe refuses to start once the server
\* is shutting down.
GCheck(r) ==
    /\ gpc[r] = "check"
    /\ IF inShutdown
         THEN GReturn(r, ErrServerClosed)
         ELSE /\ gpc' = [gpc EXCEPT ![r] = "listen"]
              /\ UNCHANGED <<gerr, first>>
    /\ UNCHANGED <<cfgVars, obsVars, srvVars, pc, sel, recv, result, ctxDone, errC,
                   expired, expConns, retConns>>

\* A bind can succeed unless the port is a fixed one this Server already
\* listens on.
CanBind == port = "0" \/ lnOpen = {}

\* server.go:43: net.Listen binds the address, or fails.
GListen(r) ==
    /\ gpc[r] = "listen"
    /\ \/ /\ CanBind
          /\ lnOpen' = lnOpen \cup {r}
          /\ gpc' = [gpc EXCEPT ![r] = "track"]
          /\ UNCHANGED <<gerr, first>>
       \/ /\ GReturn(r, ErrAddrInUse)
          /\ UNCHANGED lnOpen
    /\ UNCHANGED <<cfgVars, obsVars, inShutdown, tracked, conns, pc, sel, recv, result,
                   ctxDone, errC, expired, expConns, retConns>>

\* server.go:43: http.Server.Serve registers the listener, or closes it and
\* gives up when the server is shutting down.
GTrack(r) ==
    /\ gpc[r] = "track"
    /\ IF inShutdown
         THEN /\ GReturn(r, ErrServerClosed)
              /\ lnOpen' = lnOpen \ {r}
              /\ UNCHANGED tracked
         ELSE /\ tracked' = tracked \cup {r}
              /\ gpc' = [gpc EXCEPT ![r] = "accept"]
              /\ UNCHANGED <<gerr, first, lnOpen>>
    /\ UNCHANGED <<cfgVars, obsVars, inShutdown, conns, pc, sel, recv, result, ctxDone,
                   errC, expired, expConns, retConns>>

\* The accept loop takes a connection and starts serving its request.
GAccept(r) ==
    /\ gpc[r] = "accept"
    /\ r \in lnOpen
    /\ conns < MaxConns
    /\ conns' = conns + 1
    /\ UNCHANGED <<cfgVars, obsVars, inShutdown, lnOpen, tracked, pc, sel, recv, result,
                   ctxDone, errC, gpc, gerr, expired, first, expConns, retConns>>

\* What http.Server.Serve returns when Accept fails for good.
AcceptError(shuttingDown) == IF shuttingDown THEN ErrServerClosed ELSE ErrAccept

\* Accept fails: the listener was closed by Shutdown, or broke. Serve closes
\* and unregisters the listener and returns.
GAcceptFail(r) ==
    /\ gpc[r] = "accept"
    /\ GReturn(r, AcceptError(inShutdown))
    /\ lnOpen' = lnOpen \ {r}
    /\ tracked' = tracked \ {r}
    /\ UNCHANGED <<cfgVars, obsVars, inShutdown, conns, pc, sel, recv, result, ctxDone,
                   errC, expired, expConns, retConns>>

\* server.go:43: errC <- err. A run blocked in the select takes the value
\* directly; otherwise it goes to the buffer.
GSend(r) ==
    /\ gpc[r] = "ret"
    /\ IF pc[r] = "blocked"
         THEN /\ pc' = [pc EXCEPT ![r] = "gotErr"]
              /\ sel' = [sel EXCEPT ![r] = "errC"]
              /\ recv' = [recv EXCEPT ![r] = gerr[r]]
              /\ rcvd' = [rcvd EXCEPT ![r] = @ + 1]
              /\ UNCHANGED errC
         ELSE /\ Len(errC[r]) < ChanCap
              /\ errC' = [errC EXCEPT ![r] = Append(@, gerr[r])]
              /\ UNCHANGED <<pc, sel, recv, rcvd>>
    /\ sent' = [sent EXCEPT ![r] = @ + 1]
    /\ lateSend' = [lateSend EXCEPT ![r] = Terminated(r)]
    /\ gpc' = [gpc EXCEPT ![r] = "end"]
    /\ UNCHANGED <<cfgVars, drainLoad, srvVars, result, ctxDone, gerr, expired,
                   first, expConns, retConns>>

\* A request in flight finishes; its connection becomes idle.
ConnDone ==
    /\ conns > 0
    /\ conns' = conns - 1
    /\ UNCHANGED <<cfgVars, obsVars, inShutdown, lnOpen, tracked, pc, sel, recv, result,
                   ctxDone, errC, gpc, gerr, expired, first, expConns, retConns>>

RunStep(r) ==
    \/ Call(r)
    \/ Select(r)
    \/ RecvReturn(r)
    \/ ShutdownBegin(r)
    \/ ListenersDone(r)
    \/ Poll(r)
    \/ TimeoutReturn(r)

GoStep(r) ==
    \/ GCheck(r)
    \/ GListen(r)
    \/ GTrack(r)
    \/ GAccept(r)
    \/ GAcceptFail(r)
    \/ GSend(r)

Next ==
    \/ \E r \in Runs : RunStep(r)
    \/ \E r \in Runs : GoStep(r)
    \/ \E r \in Runs : Cancel(r)
    \/ \E r \in Runs : Tick(r)
    \/ \E r \in Runs : Expire(r)
    \/ ConnDone

Spec == Init /\ [][Next]_vars

SpecReuse == InitReuse /\ [][Next]_vars

SpecShared == InitShared /\ [][Next]_vars

\* What the Go scheduler and the runtime's timers guarantee: a goroutine that
\* can take a step takes it, a timer that is set fires, Accept on a closed
\* listener returns. Nothing makes a caller call or cancel, a request
\* finish, a connection arrive or a healthy listener fail.
Fairness ==
    \A r \in Runs :
        /\ WF_vars(Select(r) \/ RecvReturn(r) \/ ShutdownBegin(r)
                      \/ ListenersDone(r) \/ Poll(r) \/ TimeoutReturn(r))
        /\ WF_vars(GCheck(r) \/ GListen(r) \/ GTrack(r) \/ GSend(r)
                      \/ (r \notin lnOpen /\ GAcceptFail(r)))
        /\ WF_vars(Tick(r))
        /\ WF_vars(Expire(r))

FairSpec == Spec /\ Fairness

TypeOK ==
    /\ pc \in [Runs -> {"idle", "select", "blocked", "gotErr", "shutdown",
                        "lgwait", "poll", "sleep", "timedout", "done"}]
    /\ sel \in [Runs -> {"none", "ctx", "errC"}]
    /\ conns \in 0..MaxConns
    /\ \A r \in Runs : Len(errC[r]) <= ChanCap

\* The server has fully stopped: no listener is open, no request is in flight
\* and no serve loop is past its start and short of its end.
ServeLoopEnded(r) == gpc[r] \notin {"listen", "track", "accept"}
ServerStopped == lnOpen = {} /\ conns = 0 /\ \A r \in Runs : ServeLoopEnded(r)

Outcomes == {"CleanExit", "AbnormalExit", "ShutdownTimeout"}

\* C1: every run produces exactly one Outcome, at the step that terminates
\* it; a terminated run takes no further transition and observes no further
\* event (its position, its select case, the value it received and its
\* outcome never change again).
C1_ExactlyOneOutcome ==
    [][\A r \in Runs :
        /\ Terminated(r) =>
             /\ pc'[r] = pc[r]
             /\ result'[r] = result[r]
             /\ sel'[r] = sel[r]
             /\ recv'[r] = recv[r]
        /\ (result'[r] # NoErr) <=> (pc'[r] = "done")
        /\ (pc'[r] = "done") => (Outcome(r)' \in Outcomes)
        /\ (result[r] # NoErr) => (result'[r] = result[r])]_vars

\* C1 witness: a run has terminated through the cancellation path and its
\* goroutine has delivered a result afterwards that the run never observes.
C1_Witness ==
    \E r \in Runs :
        /\ Terminated(r)
        /\ sel[r] = "ctx"
        /\ Len(errC[r]) = 1
        /\ Outcome(r) \in Outcomes

\* C2 (as claimed): a terminated run whose cancellation fired before its
\* serve loop ended with any fault has outcome CleanExit or ShutdownTimeout,
\* never AbnormalExit.
C2_CancelFirstNeverAbnormal ==
    \A r \in Runs :
        (Terminated(r) /\ first[r] = "cancel") =>
            Outcome(r) \in {"CleanExit", "ShutdownTimeout"}

C4_FirstEventDecidesPath ==
    \A r \in Runs :
        sel[r] # "none" =>
            /\ first[r] = "serve" => sel[r] = "errC"
            /\ first[r] = "cancel" => sel[r] = "ctx"

\* C5 (as claimed): a run that took the cancellation path and whose
\* in-flight work had all finished when the shutdown deadline expired (or
\* whose deadline never expired) returns CleanExit.
C5_DrainedBeforeDeadlineIsClean ==
    \A r \in Runs :
        (Terminated(r) /\ sel[r] = "ctx" /\ expConns[r] # "busy") =>
            Outcome(r) = "CleanExit"

\* C6 (as claimed): a run that took the cancellation path and had work
\* still in flight when its shutdown deadline expired returns
\* ShutdownTimeout.
C6_BusyAtDeadlineIsTimeout ==
    \A r \in Runs :
        (Terminated(r) /\ sel[r] = "ctx" /\ expConns[r] = "busy") =>
            Outcome(r) = "ShutdownTimeout"

\* C6 (amended): a run that took the cancellation path and still had work in
\* flight when it acted on the expired deadline returns ShutdownTimeout, and
\* once the deadline has expired the drain never goes back to waiting
\* between polls.
C6_BusyWhenDeadlineSeenIsTimeout ==
    \A r \in Runs :
        /\ (Terminated(r) /\ sel[r] = "ctx" /\ expired[r] /\ retConns[r] = "busy") =>
              Outcome(r) = "ShutdownTimeout"
        /\ expired[r] => pc[r] # "sleep"
        /\ pc[r] = "timedout" => expired[r]

\* C6 witness: a drain whose deadline expired with work in flight has
\* returned ShutdownTimeout with that work still in flight.
C6_Witness ==
    \E r \in Runs :
        /\ Terminated(r)
        /\ sel[r] = "ctx"
        /\ expConns[r] = "busy"
        /\ retConns[r] = "busy"
        /\ Outcome(r) = "ShutdownTimeout"

\* C7: AbnormalExit is returned only on the errC path with the fault the
\* serve loop ended with, ShutdownTimeout only on the cancellation path
\* after the shutdown deadline expired during the drain; every other
\* terminated run returns CleanExit.
C7_NonCleanOnlyOnFaultOrTimeout ==
    \A r \in Runs :
        Terminated(r) =>
            /\ Outcome(r) \in Outcomes
            /\ Outcome(r) = "AbnormalExit" =>
                  /\ sel[r] = "errC"
                  /\ gerr[r] \in Faults
                  /\ Cause(r) = gerr[r]
            /\ Outcome(r) = "ShutdownTimeout" =>
                  /\ sel[r] = "ctx"
                  /\ expired[r]
            /\ (~(sel[r] = "errC" /\ gerr[r] \in Faults)
                  /\ ~(sel[r] = "ctx" /\ expired[r])) =>
                  Outcome(r) = "CleanExit"

\* C7 witness: one run has returned AbnormalExit and another has returned
\* ShutdownTimeout.
C7_Witness ==
    \E r, q \in Runs :
        /\ Terminated(r) /\ Outcome(r) = "AbnormalExit"
        /\ Terminated(q) /\ Outcome(q) = "ShutdownTimeout"

\* C8 (as claimed): at the step where a run returns, the server has fully
\* stopped or the run's shutdown deadline has expired.
C8_NoReturnBeforeStopped ==
    [][\A r \in Runs :
        (pc[r] # "done" /\ pc'[r] = "done") =>
            (ServerStopped' \/ expired'[r])]_vars

\* C9 (as claimed): at most one accept loop of the Server is in flight at
\* any time.
C9_AtMostOneServeLoop ==
    Cardinality({r \in Runs : gpc[r] = "accept" /\ r \in lnOpen}) <= 1

\* C10: a run that takes the clean-close marker from errC returns CleanExit,
\* and no run reports the marker as the cause of an AbnormalExit.
C10_MarkerIsCleanExit ==
    \A r \in Runs :
        /\ (Terminated(r) /\ sel[r] = "errC" /\ recv[r] = ErrServerClosed) =>
              Outcome(r) = "CleanExit"
        /\ Terminated(r) => Cause(r) # ErrServerClosed

\* C10 witness: a run whose context was never cancelled has taken the
\* marker from errC and returned CleanExit.
C10_Witness ==
    \E r \in Runs :
        /\ Terminated(r)
        /\ ~ctxDone[r]
        /\ sel[r] = "errC"
        /\ recv[r] = ErrServerClosed
        /\ Outcome(r) = "CleanExit"

\* C11: in every state of the lifecycle Addr() is the wildcard interface
\* 0.0.0.0, a colon and exactly the port given to New, the three timeouts
\* are the 5 s set by New, and no step of a run or of a shutdown changes the
\* port, the address or the timeouts.
C11_AddrIsWildcardAndPort ==
    /\ Addr = "0.0.0.0" \o ":" \o port
    /\ timeouts = <<5, 5, 5>>
    /\ [][/\ port' = port
          /\ Addr' = Addr
          /\ timeouts' = timeouts
          /\ Addr' = "0.0.0.0" \o ":" \o port']_vars

\* C11 witness: a run has drained and terminated on a Server built for port
\* 8080 and Addr() is still 0.0.0.0:8080.
C11_Witness ==
    \E r \in Runs :
        /\ Terminated(r)
        /\ sel[r] = "ctx"
        /\ inShutdown
        /\ port = "8080"
        /\ Addr = "0.0.0.0:8080"

LegalTransitions ==
    {<<"Idle", "Running">>, <<"Running", "Draining">>,
     <<"Running", "Terminated">>, <<"Draining", "Terminated">>}

\* C12: a run changes state only along Idle -> Running, Running -> Draining,
\* Running -> Terminated and Draining -> Terminated; it enters Draining only
\* from Running by taking the ctx.Done() case of a cancelled context, it
\* goes from Running straight to Terminated only by the errC case, a run that
\* ends in AbnormalExit never drained, a run that leaves Draining ends in
\* CleanExit or ShutdownTimeout, and every run in Draining reaches Terminated.
C12_LifecycleTransitions ==
    /\ [][\A r \in Runs :
            /\ Phase(r)' # Phase(r) =>
                  /\ <<Phase(r), Phase(r)'>> \in LegalTransitions
                  /\ Phase(r)' = "Draining" => (ctxDone'[r] /\ sel'[r] = "ctx")
                  /\ (Phase(r) = "Running" /\ Phase(r)' = "Terminated") =>
                        sel'[r] = "errC"
                  /\ (Phase(r) = "Draining" /\ Phase(r)' = "Terminated") =>
                        Outcome(r)' \in {"CleanExit", "ShutdownTimeout"}
            /\ Outcome(r)' = "AbnormalExit" => sel'[r] = "errC"
            /\ Draining(r) => sel[r] = "ctx"]_vars
    /\ \A r \in Runs : Draining(r) ~> Terminated(r)

\* C12 witness: a run has gone Running -> Draining -> Terminated: it was
\* cancelled while its serve loop was accepting, drained and returned
\* CleanExit, and its serve loop has ended with the clean-close marker.
C12_Witness ==
    \E r \in Runs :
        /\ Terminated(r)
        /\ sel[r] = "ctx"
        /\ first[r] = "cancel"
        /\ gerr[r] = ErrServerClosed
        /\ retConns[r] = "idle"
        /\ Outcome(r) = "CleanExit"

\* The run has itself called http.Server.Shutdown.
ShutdownBy(r) == sel[r] = "ctx" /\ pc[r] \in {"lgwait", "poll", "sleep", "timedout", "done"}

\* C13 (as claimed): a run that takes a serve-loop closure from errC returns
\* CleanExit only if that same run has initiated a graceful shutdown; the
\* clean-close marker caused by another run's shutdown is not this run's
\* CleanExit.
C13_CleanCloseOnlyFromOwnShutdown ==
    \A r \in Runs :
        (Terminated(r) /\ sel[r] = "errC" /\ Outcome(r) = "CleanExit") =>
            ShutdownBy(r)

\* C14: the step that enters http.Server.Shutdown leaves the run with a
\* deadline that has not expired, although the context that triggered it is
\* done; and a drain that began with no request in flight returns CleanExit,
\* never ShutdownTimeout, even when its deadline expires before it returns.
C14_FreshDeadline ==
    [][\A r \in Runs :
        /\ (pc[r] = "shutdown" /\ pc'[r] # "shutdown") =>
              (ctxDone[r] /\ ~expired'[r] /\ Draining(r)')
        /\ (Terminated(r)' /\ sel'[r] = "ctx" /\ drainLoad'[r] = "idle") =>
              Outcome(r)' = "CleanExit"]_vars

\* C14 witness: a run whose context was done began its drain with no
\* request in flight, its shutdown deadline expired during the drain, and
\* it returned CleanExit.
C14_Witness ==
    \E r \in Runs :
        /\ Terminated(r)
        /\ sel[r] = "ctx"
        /\ ctxDone[r]
        /\ drainLoad[r] = "idle"
        /\ expired[r]
        /\ Outcome(r) = "CleanExit"

\* C15 (as claimed): a run that has terminated, by whichever path, has had
\* exactly one send and exactly one receive on its errC.
C15_OneWriteOneReadEveryPath ==
    \A r \in Runs : Terminated(r) => (sent[r] = 1 /\ rcvd[r] = 1)

\* C15 (amended): errC carries at most one send and at most one receive per
\* run and nothing is duplicated or lost in it: what it holds is what was
\* sent and not yet received. A run that returns by the errC case has
\* received exactly the one value its goroutine sent; a run that returns by
\* the cancellation path receives nothing, before or after.
C15_AtMostOneWriteOneRead ==
    \A r \in Runs :
        /\ sent[r] <= 1
        /\ rcvd[r] <= sent[r]
        /\ Len(errC[r]) = sent[r] - rcvd[r]
        /\ sent[r] = 1 <=> gpc[r] = "end"
        /\ rcvd[r] = 1 <=> sel[r] = "errC"
        /\ (Terminated(r) /\ sel[r] = "errC") =>
              (sent[r] = 1 /\ rcvd[r] = 1 /\ recv[r] = gerr[r])
        /\ (Terminated(r) /\ sel[r] = "ctx") => rcvd[r] = 0

\* C15 witness: a run has returned by the cancellation path, its goroutine
\* has sent its result and the value sits in errC, never received.
C15_Witness ==
    \E r \in Runs :
        /\ Terminated(r)
        /\ sel[r] = "ctx"
        /\ sent[r] = 1
        /\ rcvd[r] = 0
        /\ errC[r] = <<gerr[r]>>

\* C16: a goroutine whose serve loop has ended is never stuck on its send:
\* the run is blocked in the select and takes the value, or errC has room
\* for it, whatever the run has done meanwhile, also after it has returned;
\* and the goroutine completes the send and ends.
C16_SendNeverBlocks ==
    /\ [](\A r \in Runs :
            gpc[r] = "ret" => (pc[r] = "blocked" \/ Len(errC[r]) < ChanCap))
    /\ \A r \in Runs : (gpc[r] = "ret") ~> (gpc[r] = "end" /\ sent[r] = 1)

\* C16 witness: a run returned by the cancellation path, and afterwards its
\* goroutine completed its send into errC and ended.
C16_Witness ==
    \E r \in Runs :
        /\ Terminated(r)
        /\ sel[r] = "ctx"
        /\ lateSend[r]
        /\ gpc[r] = "end"
        /\ Len(errC[r]) = 1

\* C17: while the serve loop of a started run has not ended and its context
\* has not been cancelled, the run is in Running, at or blocked in its
\* select, and has no Outcome; a run that has an Outcome, or is draining,
\* has seen one of the two events occur.
C17_NoOutcomeBeforeAnEvent ==
    \A r \in Runs :
        /\ (pc[r] # "idle" /\ gerr[r] = NoErr /\ ~ctxDone[r]) =>
              /\ pc[r] \in {"select", "blocked"}
              /\ Phase(r) = "Running"
              /\ Outcome(r) = "none"
        /\ (Terminated(r) \/ Draining(r)) => first[r] # "none"
        /\ Outcome(r) # "none" => Terminated(r)

\* C17 witness: a run is blocked in its select while its serve loop is
\* accepting and serving a request, with no cancellation and no Outcome.
C17_Witness ==
    \E r \in Runs :
        /\ pc[r] = "blocked"
        /\ gpc[r] = "accept"
        /\ conns > 0
        /\ ~ctxDone[r]
        /\ first[r] = "none"
        /\ Outcome(r) = "none"
====
